---- MODULE Spec2Model ----
(***************************************************************************)
(* Model of internal/constants.go of nordvpn-linux: the identity-aware     *)
(* resolution of the fileshare daemon's socket, config directory and log   *)
(* path, the nordvpn group id lookup and the supported iptables families.  *)
(*                                                                         *)
(* Go strings are modelled as sequences of one-character strings, so that  *)
(* fmt.Sprintf, filepath.Join/Clean and strconv.Atoi are computed on the   *)
(* characters as the library computes them.                                *)
(***************************************************************************)
EXTENDS Integers, Sequences, FiniteSets, TLC

\* Largest numeric user id of the modelled user database and /run/user.
MaxUid == 2

(***************************************************************************)
(* Package constants                                                       *)
(***************************************************************************)
LogPath == <<"/", "v", "a", "r", "/", "l", "o", "g", "/", "n", "o", "r", "d", "v", "p", "n", "/">>

NordvpnGroup == <<"n", "o", "r", "d", "v", "p", "n">>

Fileshared == <<"n", "o", "r", "d", "f", "i", "l", "e", "s", "h", "a", "r", "e", "d">>

ConfigDirectory == <<".", "c", "o", "n", "f", "i", "g">>

UserDataPath == <<"n", "o", "r", "d", "v", "p", "n", "/">>

\* The nil error value.
Nil == "nil"

(***************************************************************************)
(* Library functions the package calls                                     *)
(***************************************************************************)
Digits == <<"0", "1", "2", "3", "4", "5", "6", "7", "8", "9">>

DigitValue(c) == (CHOOSE i \in 1..10 : Digits[i] = c) - 1

IsDigit(c) == \E i \in 1..10 : Digits[i] = c

\* fmt.Sprintf("%d", n)
RECURSIVE Itoa(_)
Itoa(n) ==
    IF n < 0 THEN <<"-">> \o Itoa(-n)
    ELSE IF n < 10 THEN <<Digits[n + 1]>>
    ELSE Itoa(n \div 10) \o <<Digits[(n % 10) + 1]>>

RECURSIVE ParseDigits(_, _)
ParseDigits(s, acc) ==
    IF s = <<>> THEN acc
    ELSE ParseDigits(Tail(s), acc * 10 + DigitValue(Head(s)))

\* strconv.Atoi: an optional sign, then at least one decimal digit and
\* nothing else; (0, syntax error) otherwise.  The strings of the model are
\* too short to reach the range error.
Atoi(s) ==
    LET signed == s # <<>> /\ Head(s) \in {"-", "+"}
        body == IF signed THEN Tail(s) ELSE s
    IN  IF body = <<>> \/ \E i \in 1..Len(body) : ~IsDigit(body[i])
        THEN [val |-> 0, err |-> "invalid syntax"]
        ELSE [val |-> IF signed /\ Head(s) = "-"
                      THEN -ParseDigits(body, 0)
                      ELSE ParseDigits(body, 0),
              err |-> Nil]

\* strings.Split(s, "/")
RECURSIVE SplitPath(_, _)
SplitPath(s, cur) ==
    IF s = <<>> THEN <<cur>>
    ELSE IF Head(s) = "/" THEN <<cur>> \o SplitPath(Tail(s), <<>>)
    ELSE SplitPath(Tail(s), Append(cur, Head(s)))

\* strings.Join(elems, "/")
RECURSIVE JoinSep(_)
JoinSep(elems) ==
    IF elems = <<>> THEN <<>>
    ELSE IF Len(elems) = 1 THEN elems[1]
    ELSE elems[1] \o <<"/">> \o JoinSep(Tail(elems))

\* The lexical rules of filepath.Clean on the components of a path: empty
\* and "." components are dropped, ".." removes the component before it
\* (and is dropped at the root, kept at the start of a relative path).
RECURSIVE CleanComponents(_, _, _)
CleanComponents(comps, out, rooted) ==
    IF comps = <<>> THEN out
    ELSE LET c == Head(comps)
         IN  IF c = <<>> \/ c = <<".">>
             THEN CleanComponents(Tail(comps), out, rooted)
             ELSE IF c = <<".", ".">>
             THEN IF out # <<>> /\ out[Len(out)] # <<".", ".">>
                  THEN CleanComponents(Tail(comps), SubSeq(out, 1, Len(out) - 1), rooted)
                  ELSE IF rooted
                  THEN CleanComponents(Tail(comps), out, rooted)
                  ELSE CleanComponents(Tail(comps), Append(out, c), rooted)
             ELSE CleanComponents(Tail(comps), Append(out, c), rooted)

\* filepath.Clean
Clean(path) ==
    IF path = <<>> THEN <<".">>
    ELSE LET rooted == Head(path) = "/"
             kept == CleanComponents(SplitPath(path, <<>>), <<>>, rooted)
         IN  IF rooted THEN <<"/">> \o JoinSep(kept)
             ELSE IF kept = <<>> THEN <<".">>
             ELSE JoinSep(kept)

\* filepath.Join: the elements from the first non-empty one on, joined with
\* the separator and cleaned; "" when every element is empty.
RECURSIVE Join(_)
Join(elems) ==
    IF elems = <<>> THEN <<>>
    ELSE IF Head(elems) = <<>> THEN Join(Tail(elems))
    ELSE Clean(JoinSep(elems))

(***************************************************************************)
(* The operating system the package observes                               *)
(***************************************************************************)
VARIABLES
    PlatformSupportsIPv4,   \* package variable
    PlatformSupportsIPv6,   \* package variable
    group,                  \* the group database entry of NordvpnGroup
    passwd,                 \* the user database, by numeric uid
    fs,                     \* what is at each path the package probes
    call,                   \* the last call: operation, argument, flags read
    ret                     \* what the last call returned

vars == <<PlatformSupportsIPv4, PlatformSupportsIPv6, group, passwd, fs, call, ret>>

\* What can be at a probed path: a directory, a regular file, nothing, a
\* directory below a parent that denies search permission, or nothing
\* because a parent is not a directory.
Status == {"dir", "file", "absent", "dir_eacces", "absent_enotdir"}

Uids == 0..MaxUid

RunUserDir(uid) == <<"/", "r", "u", "n", "/", "u", "s", "e", "r", "/">> \o Itoa(uid)

RunPaths == {RunUserDir(u) : u \in Uids}

\* Home directories found in the user database ("" included).
Homes == {<<>>,
          <<"/", "h", "o", "m", "e", "/", "u">>,
          <<"/">>}

ConfigPaths == {Join(<<h, ConfigDirectory, UserDataPath>>) : h \in Homes \ {<<>>}}

\* os.Stat: the error it returns (the FileInfo is never used).
Stat(path) ==
    LET p == Clean(path)
        st == IF p \in DOMAIN fs THEN fs[p] ELSE "absent"
    IN  CASE st \in {"dir", "file"} -> Nil
          [] st = "absent" -> "ENOENT"
          [] st = "dir_eacces" -> "EACCES"
          [] st = "absent_enotdir" -> "ENOTDIR"

\* os.IsNotExist
IsNotExist(err) == err = "ENOENT"

NoUser == [present |-> FALSE, HomeDir |-> <<>>]

UserEntries == {NoUser} \cup {[present |-> TRUE, HomeDir |-> h] : h \in Homes}

\* user.LookupId: the uid string is parsed with strconv.Atoi and the number
\* looked up; a nil *User comes with every error.
LookupId(uid) ==
    LET n == Atoi(uid)
    IN  IF n.err # Nil
        THEN [isNil |-> TRUE, HomeDir |-> <<>>, err |-> "invalid userid"]
        ELSE IF n.val \in DOMAIN passwd /\ passwd[n.val].present
        THEN [isNil |-> FALSE, HomeDir |-> passwd[n.val].HomeDir, err |-> Nil]
        ELSE [isNil |-> TRUE, HomeDir |-> <<>>, err |-> "unknown userid"]

\* Gid strings a group database entry can hold.
GidStrings == {<<"0">>, <<"1", "0", "0", "1">>, <<"+", "7">>, <<"-", "5">>,
               <<>>, <<"-">>, <<"x">>, <<"1", "x">>}

NoGroup == [present |-> FALSE, Gid |-> <<>>]

GroupEntries == {NoGroup} \cup {[present |-> TRUE, Gid |-> g] : g \in GidStrings}

\* user.LookupGroup
LookupGroup(name) ==
    IF name = NordvpnGroup /\ group.present
    THEN [Gid |-> group.Gid, err |-> Nil]
    ELSE [Gid |-> <<>>, err |-> "unknown group"]

(***************************************************************************)
(* The package's functions                                                 *)
(***************************************************************************)
GetSupportedIPTables_AlwaysIPv4 ==
    <<"iptables">> \o (IF PlatformSupportsIPv6 THEN <<"ip6tables">> ELSE <<>>)

GetSupportedIPTables ==
    (IF PlatformSupportsIPv4 THEN <<"iptables">> ELSE <<>>)
        \o (IF PlatformSupportsIPv6 THEN <<"ip6tables">> ELSE <<>>)

SystemSocket == <<"/", "r", "u", "n", "/">> \o Fileshared \o <<"/">> \o Fileshared
                    \o <<".", "s", "o", "c", "k">>

UserSocket(uid) == <<"/", "r", "u", "n", "/", "u", "s", "e", "r", "/">> \o Itoa(uid)
                       \o <<"/">> \o Fileshared \o <<"/">> \o Fileshared
                       \o <<".", "s", "o", "c", "k">>

GetFilesharedSocket_NoRootCheck(uid) ==
    IF IsNotExist(Stat(RunUserDir(uid))) THEN SystemSocket ELSE UserSocket(uid)

GetFilesharedSocket_AnyError(uid) ==
    IF uid = 0 \/ Stat(RunUserDir(uid)) # Nil THEN SystemSocket ELSE UserSocket(uid)

GetFilesharedSocket_NoStat(uid) ==
    IF uid = 0 THEN SystemSocket ELSE UserSocket(uid)

GetFilesharedSocket(uid) ==
    LET err == Stat(RunUserDir(uid))
    IN  IF uid = 0 \/ IsNotExist(err) THEN SystemSocket ELSE UserSocket(uid)

ErrNoHome == "user does not have a home directory"

ErrNoConfigDir == ".config directory not found in users home directory"

GetFilesharedConfigDirPath_NoStat(homeDirectory) ==
    IF homeDirectory = <<>>
    THEN [path |-> <<>>, err |-> ErrNoHome]
    ELSE [path |-> Join(<<homeDirectory, ConfigDirectory, UserDataPath>>), err |-> Nil]

GetFilesharedConfigDirPath(homeDirectory) ==
    IF homeDirectory = <<>>
    THEN [path |-> <<>>, err |-> ErrNoHome]
    ELSE LET userConfigPath == Join(<<homeDirectory, ConfigDirectory, UserDataPath>>)
             err == Stat(userConfigPath)
         IN  IF err = Nil
             THEN [path |-> userConfigPath, err |-> Nil]
             ELSE [path |-> <<>>, err |-> ErrNoConfigDir]

filesharedLogFilename == Fileshared \o <<".", "l", "o", "g">>

\* GetFilesharedLogPath for a uid other than "0".  usr is nil whenever the
\* lookup fails, and usr.HomeDir then panics with a nil pointer dereference,
\* after the first warning was logged.
LogPathOfUser(uid) ==
    LET usr == LookupId(uid)
        w1 == IF usr.err # Nil THEN <<"failed to lookup user">> ELSE <<>>
    IN  IF usr.isNil
        THEN [outcome |-> "panic", path |-> <<>>, warnings |-> w1]
        ELSE LET configDir == GetFilesharedConfigDirPath(usr.HomeDir)
             IN  IF configDir.err # Nil
                 THEN [outcome |-> "return",
                       path |-> Join(<<LogPath,
                                       Fileshared \o <<"-">> \o uid \o <<".", "l", "o", "g">>>>),
                       warnings |-> Append(w1, "users fileshared logs will be stored in LogPath")]
                 ELSE [outcome |-> "return",
                       path |-> Join(<<configDir.path, filesharedLogFilename>>),
                       warnings |-> w1]

GetFilesharedLogPath_NoRootCase(uid) == LogPathOfUser(uid)

GetFilesharedLogPath(uid) ==
    IF uid = <<"0">>
    THEN [outcome |-> "return",
          path |-> Join(<<LogPath, filesharedLogFilename>>),
          warnings |-> <<>>]
    ELSE LogPathOfUser(uid)

GetNordvpnGid_DropsLookupError ==
    LET g == LookupGroup(NordvpnGroup)
        n == Atoi(g.Gid)
    IN  IF g.err # Nil THEN [id |-> 0, err |-> Nil] ELSE [id |-> n.val, err |-> n.err]

GetNordvpnGid ==
    LET g == LookupGroup(NordvpnGroup)
        n == Atoi(g.Gid)
    IN  IF g.err # Nil THEN [id |-> 0, err |-> g.err] ELSE [id |-> n.val, err |-> n.err]

(***************************************************************************)
(* Calls                                                                   *)
(***************************************************************************)
\* uid strings callers pass to GetFilesharedLogPath: the decimal forms of
\* the uids of the database and of one uid beyond it, and strings that are
\* no canonical decimal.
UidStrings == {Itoa(u) : u \in 0..(MaxUid + 1)} \cup {<<>>, <<"x">>, <<"0", "1">>}

NoCall == [op |-> "none", arg |-> <<>>, ipv4 |-> TRUE, ipv6 |-> TRUE]

Called(op, arg) ==
    [op |-> op, arg |-> arg, ipv4 |-> PlatformSupportsIPv4, ipv6 |-> PlatformSupportsIPv6]

os == <<PlatformSupportsIPv4, PlatformSupportsIPv6, group, passwd, fs>>

\* The external collaborator that sets the exported capability flags.
SetPlatformSupport ==
    /\ \E v4 \in BOOLEAN, v6 \in BOOLEAN :
          /\ <<v4, v6>> # <<PlatformSupportsIPv4, PlatformSupportsIPv6>>
          /\ PlatformSupportsIPv4' = v4
          /\ PlatformSupportsIPv6' = v6
    /\ UNCHANGED <<group, passwd, fs, call, ret>>

CallGetSupportedIPTables ==
    /\ call' = Called("GetSupportedIPTables", <<>>)
    /\ ret' = GetSupportedIPTables
    /\ UNCHANGED os

CallGetNordvpnGid ==
    /\ call' = Called("GetNordvpnGid", <<>>)
    /\ ret' = GetNordvpnGid
    /\ UNCHANGED os

CallGetFilesharedSocket ==
    /\ \E uid \in Uids :
          /\ call' = Called("GetFilesharedSocket", uid)
          /\ ret' = GetFilesharedSocket(uid)
    /\ UNCHANGED os

CallGetFilesharedConfigDirPath ==
    /\ \E home \in Homes :
          /\ call' = Called("GetFilesharedConfigDirPath", home)
          /\ ret' = GetFilesharedConfigDirPath(home)
    /\ UNCHANGED os

CallGetFilesharedLogPath ==
    /\ \E uid \in UidStrings :
          /\ call' = Called("GetFilesharedLogPath", uid)
          /\ ret' = GetFilesharedLogPath(uid)
    /\ UNCHANGED os

(***************************************************************************)
(* Specifications.  The operating system state is whatever the process     *)
(* finds; each specification lets the part its functions read range over   *)
(* every combination and holds the rest at an empty system.                *)
(***************************************************************************)
NothingAt(paths) == [p \in paths |-> "absent"]

InitCommon ==
    /\ PlatformSupportsIPv4 = TRUE
    /\ PlatformSupportsIPv6 = TRUE
    /\ call = NoCall
    /\ ret = <<>>

InitSocket ==
    /\ InitCommon
    /\ group = NoGroup
    /\ passwd = [u \in Uids |-> NoUser]
    /\ fs \in {r @@ NothingAt(ConfigPaths) : r \in [RunPaths -> Status]}

NextSocket == CallGetFilesharedSocket

SpecSocket == InitSocket /\ [][NextSocket]_vars

InitLog ==
    /\ InitCommon
    /\ group = NoGroup
    /\ passwd \in [Uids -> UserEntries]
    /\ fs \in {c @@ NothingAt(RunPaths) : c \in [ConfigPaths -> Status]}

NextLog == CallGetFilesharedConfigDirPath \/ CallGetFilesharedLogPath

SpecLog == InitLog /\ [][NextLog]_vars

InitNet ==
    /\ InitCommon
    /\ group \in GroupEntries
    /\ passwd = [u \in Uids |-> NoUser]
    /\ fs = NothingAt(RunPaths \cup ConfigPaths)

NextNet == SetPlatformSupport \/ CallGetSupportedIPTables \/ CallGetNordvpnGid

SpecNet == InitNet /\ [][NextNet]_vars

(***************************************************************************)
(* Properties                                                              *)
(***************************************************************************)
SystemSocketPath ==
    <<"/", "r", "u", "n", "/", "n", "o", "r", "d", "f", "i", "l", "e", "s", "h", "a", "r", "e", "d", "/", "n", "o", "r", "d", "f", "i", "l", "e", "s", "h", "a", "r", "e", "d", ".", "s", "o", "c", "k">>

UserSocketPath(uid) ==
    <<"/", "r", "u", "n", "/", "u", "s", "e", "r", "/">> \o Itoa(uid)
        \o <<"/", "n", "o", "r", "d", "f", "i", "l", "e", "s", "h", "a", "r", "e", "d", "/", "n", "o", "r", "d", "f", "i", "l", "e", "s", "h", "a", "r", "e", "d", ".", "s", "o", "c", "k">>

SystemLogFile ==
    <<"/", "v", "a", "r", "/", "l", "o", "g", "/", "n", "o", "r", "d", "v", "p", "n", "/", "n", "o", "r", "d", "f", "i", "l", "e", "s", "h", "a", "r", "e", "d", ".", "l", "o", "g">>

FallbackLogFile(uid) ==
    <<"/", "v", "a", "r", "/", "l", "o", "g", "/", "n", "o", "r", "d", "v", "p", "n", "/", "n", "o", "r", "d", "f", "i", "l", "e", "s", "h", "a", "r", "e", "d", "-">> \o uid
        \o <<".", "l", "o", "g">>

\* The user's config directory as filepath.Join leaves it: no trailing
\* separator, no doubled separator after the home directory "/".
CleanedConfigDir(home) ==
    IF home = <<"/">>
    THEN <<"/", ".", "c", "o", "n", "f", "i", "g", "/", "n", "o", "r", "d", "v", "p", "n">>
    ELSE home \o <<"/", ".", "c", "o", "n", "f", "i", "g", "/", "n", "o", "r", "d", "v", "p", "n">>

IsLogCall == call.op = "GetFilesharedLogPath"

IsSocketCall == call.op = "GetFilesharedSocket"

IsConfigCall == call.op = "GetFilesharedConfigDirPath"

UserFound(uid) == LookupId(uid).err = Nil

\* C1 (as claimed): GetFilesharedLogPath with a uid other than "0" whose user
\* lookup fails logs a warning and returns /var/log/nordvpn/nordfileshared-<uid>.log.
C1_LookupFailureFallsBack ==
    (IsLogCall /\ call.arg # <<"0">> /\ ~UserFound(call.arg))
        => /\ ret.outcome = "return"
           /\ ret.path = FallbackLogFile(call.arg)
           /\ ret.warnings # <<>>

\* C2 (as claimed): GetFilesharedLogPath is total: every call returns a path
\* string and never aborts.
C2_LogPathNeverAborts ==
    IsLogCall => (ret.outcome = "return" /\ ret.path # <<>>)

\* C3 (as claimed): for uid > 0, a probe of /run/user/<uid> that fails with an
\* error other than "not found" yields the system-wide socket path.
C3_ProbeErrorFallsBack ==
    (IsSocketCall /\ call.arg > 0 /\ fs[RunUserDir(call.arg)] \in {"dir_eacces", "absent_enotdir"})
        => ret = SystemSocketPath

\* C3 (amended): for uid > 0, a probe of /run/user/<uid> that fails with an
\* error other than "not found" yields the per-user socket path.
C3_ProbeErrorKeepsUserSocket ==
    (IsSocketCall /\ call.arg > 0 /\ fs[RunUserDir(call.arg)] \in {"dir_eacces", "absent_enotdir"})
        => ret = UserSocketPath(call.arg)

C3_Witness ==
    /\ IsSocketCall
    /\ call.arg > 0
    /\ fs[RunUserDir(call.arg)] = "dir_eacces"
    /\ ret = UserSocketPath(call.arg)

\* C4 (as claimed): for uid > 0 the per-user socket path is returned if and only
\* if the directory /run/user/<uid> exists, and the system-wide path otherwise.
C4_UserSocketIffDirExists ==
    (IsSocketCall /\ call.arg > 0)
        => IF fs[RunUserDir(call.arg)] \in {"dir", "dir_eacces"}
           THEN ret = UserSocketPath(call.arg)
           ELSE ret = SystemSocketPath

\* C4 (amended): for uid > 0 the system-wide socket path is returned if and only
\* if the probe of /run/user/<uid> reports "not found"; whenever the probe
\* succeeds (on a directory or any other file) or fails with another error,
\* the per-user path is returned.
C4_UserSocketIffNotNotFound ==
    (IsSocketCall /\ call.arg > 0)
        => IF fs[RunUserDir(call.arg)] = "absent"
           THEN ret = SystemSocketPath
           ELSE ret = UserSocketPath(call.arg)

C4_Witness ==
    /\ IsSocketCall
    /\ call.arg > 0
    /\ fs[RunUserDir(call.arg)] = "absent_enotdir"
    /\ ret = UserSocketPath(call.arg)

\* C5: GetFilesharedSocket(0) returns the system-wide socket path whatever is
\* at /run/user/0.
C5_RootSocketIsSystemWide ==
    (IsSocketCall /\ call.arg = 0) => ret = SystemSocketPath

C5_Witness ==
    /\ IsSocketCall
    /\ call.arg = 0
    /\ fs[RunUserDir(0)] = "dir"
    /\ ret = SystemSocketPath

\* C6 (as claimed): GetFilesharedConfigDirPath(home) returns exactly
\* <home>/.config/nordvpn/ with no error when home is non-empty and that path
\* exists, and an empty path with an error otherwise.
C6_ConfigDirByteForByte ==
    IsConfigCall
        => LET claimed == call.arg \o <<"/", ".", "c", "o", "n", "f", "i", "g", "/", "n", "o", "r", "d", "v", "p", "n", "/">>
           IN  IF call.arg # <<>> /\ fs[Clean(claimed)] \in {"dir", "file", "dir_eacces"}
               THEN ret = [path |-> claimed, err |-> Nil]
               ELSE /\ ret.path = <<>>
                    /\ ret.err = IF call.arg = <<>> THEN ErrNoHome ELSE ErrNoConfigDir

\* C6 (amended): GetFilesharedConfigDirPath(home) returns the cleaned path
\* <home>/.config/nordvpn (no trailing separator, no doubled separator) with
\* no error exactly when home is non-empty and os.Stat of that path succeeds;
\* otherwise it returns an empty path with an error: the no-home error for
\* home = "", the not-found error for every Stat failure, a permission error
\* on an existing directory included.
C6_ConfigDirCleanedWhenStatSucceeds ==
    IsConfigCall
        => IF call.arg # <<>> /\ fs[CleanedConfigDir(call.arg)] \in {"dir", "file"}
           THEN ret = [path |-> CleanedConfigDir(call.arg), err |-> Nil]
           ELSE /\ ret.path = <<>>
                /\ ret.err = IF call.arg = <<>> THEN ErrNoHome ELSE ErrNoConfigDir

C6_Witness ==
    /\ IsConfigCall
    /\ call.arg = <<"/">>
    /\ ret = [path |-> <<"/", ".", "c", "o", "n", "f", "i", "g", "/", "n", "o", "r", "d", "v", "p", "n">>,
              err |-> Nil]

\* C7 (as claimed): GetSupportedIPTables always lists "iptables", lists
\* "ip6tables" if and only if PlatformSupportsIPv6, and IPv4 before IPv6.
C7_IPv4AlwaysListed ==
    call.op = "GetSupportedIPTables"
        => ret = <<"iptables">> \o (IF call.ipv6 THEN <<"ip6tables">> ELSE <<>>)

\* C7 (amended): GetSupportedIPTables lists "iptables" if and only if
\* PlatformSupportsIPv4, "ip6tables" if and only if PlatformSupportsIPv6, and
\* IPv4 before IPv6 when both are listed.
C7_FamiliesFollowFlags ==
    call.op = "GetSupportedIPTables"
        => /\ (\E i \in 1..Len(ret) : ret[i] = "iptables") <=> call.ipv4
           /\ (\E i \in 1..Len(ret) : ret[i] = "ip6tables") <=> call.ipv6
           /\ \A i, j \in 1..Len(ret) :
                 (ret[i] = "iptables" /\ ret[j] = "ip6tables") => i < j
           /\ Len(ret) = (IF call.ipv4 THEN 1 ELSE 0) + (IF call.ipv6 THEN 1 ELSE 0)

C7_Witness ==
    /\ call.op = "GetSupportedIPTables"
    /\ ~call.ipv4
    /\ call.ipv6
    /\ ret = <<"ip6tables">>

\* The value of a canonical decimal numeral, most significant digit first.
RECURSIVE DecimalValue(_)
DecimalValue(s) ==
    IF s = <<>> THEN 0
    ELSE 10 * DecimalValue(SubSeq(s, 1, Len(s) - 1)) + DigitValue(s[Len(s)])

IsNumeral(s) == s # <<>> /\ \A i \in 1..Len(s) : IsDigit(s[i])

IsSignedNumeral(s) ==
    IsNumeral(s) \/ (s # <<>> /\ s[1] \in {"+", "-"} /\ IsNumeral(Tail(s)))

SignedValue(s) ==
    IF s[1] = "-" THEN -DecimalValue(Tail(s))
    ELSE IF s[1] = "+" THEN DecimalValue(Tail(s))
    ELSE DecimalValue(s)

\* C8: GetNordvpnGid returns an error whenever the group does not exist, and
\* a nil error only together with the numeric value of the group's Gid; a Gid
\* that is no number gives id 0 with an error.
C8_GidErrorsSurface ==
    call.op = "GetNordvpnGid"
        => /\ ~group.present => (ret.err # Nil /\ ret.id = 0)
           /\ ret.err = Nil
                 => /\ group.present
                    /\ IsSignedNumeral(group.Gid)
                    /\ ret.id = SignedValue(group.Gid)
           /\ (group.present /\ ~IsSignedNumeral(group.Gid))
                 => (ret.err # Nil /\ ret.id = 0)

C8_Witness ==
    /\ call.op = "GetNordvpnGid"
    /\ ~group.present
    /\ ret.err = "unknown group"
    /\ ret.id = 0

\* C9: GetFilesharedLogPath("0") returns /var/log/nordvpn/nordfileshared.log
\* whatever the user database and the config directories hold.
C9_RootLogIsSystemLog ==
    (IsLogCall /\ call.arg = <<"0">>)
        => ret = [outcome |-> "return", path |-> SystemLogFile, warnings |-> <<>>]

C9_Witness ==
    /\ IsLogCall
    /\ call.arg = <<"0">>
    /\ passwd[0].present
    /\ passwd[0].HomeDir # <<>>
    /\ fs[CleanedConfigDir(passwd[0].HomeDir)] = "dir"
    /\ ret.path = SystemLogFile

\* C10 (as claimed): for a uid other than "0" whose lookup succeeds the log is
\* <home>/.config/nordvpn/nordfileshared.log when the config directory
\* resolves, and /var/log/nordvpn/nordfileshared-<uid>.log when it does not:
\* the same path a failed lookup of the uid produces.
C10_OneFallbackForBothFailures ==
    (IsLogCall /\ call.arg # <<"0">>)
        => LET usr == LookupId(call.arg)
               resolves == /\ usr.err = Nil
                           /\ usr.HomeDir # <<>>
                           /\ fs[CleanedConfigDir(usr.HomeDir)] \in {"dir", "file"}
           IN  /\ ret.outcome = "return"
               /\ ret.path = IF resolves
                             THEN CleanedConfigDir(usr.HomeDir)
                                      \o <<"/", "n", "o", "r", "d", "f", "i", "l", "e", "s", "h", "a", "r", "e", "d", ".", "l", "o", "g">>
                             ELSE FallbackLogFile(call.arg)

====
